---- MODULE Spec2Model ----
(***************************************************************************)
(* Heap file storage layer: TupleDesc codec (Tuple.cpp), slotted HeapPage, *)
(* the page store of DbFile and the HeapFile operations (HeapFile.cpp).    *)
(* Bytes are naturals 0..255; a buffer is a sequence of bytes; slot s of a *)
(* page (0-based, as in the code) is element s + 1 of the page's arrays.   *)
(***************************************************************************)
EXTENDS Integers, Sequences, FiniteSets, Bags, TLC

VARIABLES td, pages, last, prior, log, bag, tc

vars == <<td, pages, last, prior, log, bag, tc>>

(***************************************************************************)
(* Bounds of the model.                                                    *)
(***************************************************************************)
\* bytes of one page of the store (scaled down so that capacities are 0..2)
PageSize == 140
\* the file is explored up to this many record slots (pages x capacity)
MaxRecords == 4
\* the most pages a file gets: MaxRecords pages of capacity 1
MaxPages == MaxRecords
\* slot indices 0..MaxSlot are tried as locator slots
MaxSlot == 2

(***************************************************************************)
(* Field types and their fixed widths.                                     *)
(***************************************************************************)
INT_SIZE == 4
DOUBLE_SIZE == 8
CHAR_SIZE == 64

size_of(t) ==
    CASE t = "INT" -> INT_SIZE
      [] t = "DOUBLE" -> DOUBLE_SIZE
      [] t = "CHAR" -> CHAR_SIZE

Min(a, b) == IF a < b THEN a ELSE b

\* n zero bytes
Zeros(n) == [k \in 1..n |-> 0]

(***************************************************************************)
(* Tuple: a sequence of field values [type, val].  An int is a 32-bit      *)
(* signed integer, a double is its 8 raw bytes, a string is its bytes.     *)
(***************************************************************************)
field_type(t, i) == t[i].type

IntField(v) == [type |-> "INT", val |-> v]
DoubleField(bits) == [type |-> "DOUBLE", val |-> bits]
CharField(s) == [type |-> "CHAR", val |-> s]

(***************************************************************************)
(* TupleDesc: types_, names_; offsets_ and length_ are the prefix sums the *)
(* constructor computes.                                                   *)
(***************************************************************************)
RECURSIVE SumSizes(_, _)
SumSizes(types, n) ==
    IF n = 0 THEN 0 ELSE SumSizes(types, n - 1) + size_of(types[n])

\* offsets_[i] for the 1-based field index i
offset_of(d, i) == SumSizes(d.types, i - 1)

length(d) == SumSizes(d.types, Len(d.types))

compatible(d, t) ==
    /\ Len(t) = Len(d.types)
    /\ \A i \in 1..Len(d.types) : field_type(t, i) = d.types[i]

\* some name occurs twice in names
HasDuplicate(names) ==
    \E i, j \in 1..Len(names) : i < j /\ names[i] = names[j]

\* faulty variant: the names are not checked for duplicates
TupleDesc_new_NoDupCheck(types, names) ==
    IF Len(types) # Len(names) THEN [ok |-> FALSE]
    ELSE [ok |-> TRUE, desc |-> [types |-> types, names |-> names]]

\* TupleDesc(types, names): ok is FALSE when it throws logic_error
TupleDesc_new(types, names) ==
    IF Len(types) # Len(names) THEN [ok |-> FALSE]
    ELSE IF HasDuplicate(names) THEN [ok |-> FALSE]
    ELSE [ok |-> TRUE, desc |-> [types |-> types, names |-> names]]

\* td1's fields, then td2's, through the constructor
merge(td1, td2) ==
    TupleDesc_new(td1.types \o td2.types, td1.names \o td2.names)

(***************************************************************************)
(* memcpy of an int: 4 bytes, two's complement, low byte first.            *)
(***************************************************************************)
IntBytes(v) ==
    LET u == IF v < 0 THEN (v + 1073741824) + 1073741824 ELSE v
    IN  << u % 256,
           (u \div 256) % 256,
           (u \div 65536) % 256,
           (u \div 16777216) + (IF v < 0 THEN 128 ELSE 0) >>

BytesInt(b) ==
    LET low == b[1] + 256 * b[2] + 65536 * b[3] + 16777216 * (b[4] % 128)
    IN  IF b[4] >= 128 THEN (low - 1073741824) - 1073741824 ELSE low

\* the CHAR case of serialize: truncate to CHAR_SIZE, pad with zeros
CharBytes(s) ==
    LET n == Min(Len(s), CHAR_SIZE)
    IN  [k \in 1..CHAR_SIZE |-> IF k <= n THEN s[k] ELSE 0]

\* the CHAR case of deserialize: up to the first zero byte or CHAR_SIZE
RECURSIVE StrLen(_, _)
StrLen(b, len) ==
    IF len < CHAR_SIZE /\ b[len + 1] # 0 THEN StrLen(b, len + 1) ELSE len

\* faulty variant: the whole field is taken, no search for a zero byte
BytesChar_NoTerminator(b) == b

BytesChar(b) == SubSeq(b, 1, StrLen(b, 0))

EncodeField(type, f) ==
    CASE type = "INT" -> IntBytes(f.val)
      [] type = "DOUBLE" -> f.val
      [] type = "CHAR" -> CharBytes(f.val)

DecodeField(type, b) ==
    CASE type = "INT" -> IntField(BytesInt(b))
      [] type = "DOUBLE" -> DoubleField(b)
      [] type = "CHAR" -> CharField(BytesChar(b))

\* memcpy(data + off, b, Len(b))
WriteAt(data, off, b) ==
    [k \in 1..Len(data) |->
        IF off < k /\ k <= off + Len(b) THEN b[k - off] ELSE data[k]]

\* the loop of serialize over the fields 1..n, each written at its offset
RECURSIVE SerializeFields(_, _, _, _)
SerializeFields(d, data, t, n) ==
    IF n = 0 THEN data
    ELSE WriteAt(SerializeFields(d, data, t, n - 1), offset_of(d, n),
                 EncodeField(d.types[n], t[n]))

\* the first position whose type differs, or Len(d.types) + 1
RECURSIVE FirstMismatch(_, _, _)
FirstMismatch(d, t, i) ==
    IF i > Len(d.types) THEN i
    ELSE IF field_type(t, i) # d.types[i] THEN i
    ELSE FirstMismatch(d, t, i + 1)

\* faulty variant: each field's type is checked just before it is written
serialize_ChecksPerField(d, data, t) ==
    IF Len(t) # Len(d.types) THEN [ok |-> FALSE, data |-> data]
    ELSE LET k == FirstMismatch(d, t, 1)
         IN  [ok |-> k > Len(d.types),
              data |-> SerializeFields(d, data, t, k - 1)]

\* serialize: "ok" is FALSE when the tuple is rejected (logic_error)
serialize(d, data, t) ==
    IF ~compatible(d, t) THEN [ok |-> FALSE, data |-> data]
    ELSE [ok |-> TRUE, data |-> SerializeFields(d, data, t, Len(d.types))]

deserialize(d, data) ==
    [i \in 1..Len(d.types) |->
        DecodeField(d.types[i],
                    SubSeq(data, offset_of(d, i) + 1,
                           offset_of(d, i) + size_of(d.types[i])))]

(***************************************************************************)
(* The page store of DbFile: numbered pages, appended at index = count.    *)
(***************************************************************************)
getNumPages(ps) == Len(ps)

readPage(ps, i) == ps[i + 1]

writePage(ps, page, i) ==
    IF i = Len(ps) THEN Append(ps, page) ELSE [ps EXCEPT ![i + 1] = page]

(***************************************************************************)
(* HeapPage: a page seen through a TupleDesc as capacity slots, each with  *)
(* a liveness bit and length(d) bytes of record.                           *)
(***************************************************************************)
HeapPage_capacity(d) == (PageSize * 8) \div (length(d) * 8 + 1)

\* Page{}: the all-zero page
EmptyPage(d) ==
    [live |-> [s \in 1..HeapPage_capacity(d) |-> FALSE],
     data |-> [s \in 1..HeapPage_capacity(d) |-> Zeros(length(d))]]

HeapPage_end(page) == Len(page.live)

\* the lowest live slot >= s, or end()
RECURSIVE FirstLiveFrom(_, _)
FirstLiveFrom(page, s) ==
    IF s >= HeapPage_end(page) THEN HeapPage_end(page)
    ELSE IF page.live[s + 1] THEN s
    ELSE FirstLiveFrom(page, s + 1)

HeapPage_begin(page) == FirstLiveFrom(page, 0)

HeapPage_next(page, s) == FirstLiveFrom(page, s + 1)

\* the lowest dead slot >= s, or end()
RECURSIVE FirstDeadFrom(_, _)
FirstDeadFrom(page, s) ==
    IF s >= HeapPage_end(page) THEN HeapPage_end(page)
    ELSE IF ~page.live[s + 1] THEN s
    ELSE FirstDeadFrom(page, s + 1)

\* claims the first dead slot; ok is FALSE (no mutation) when the page is full
HeapPage_insertTuple(page, d, t) ==
    LET s == FirstDeadFrom(page, 0)
    IN  IF s = HeapPage_end(page) THEN [ok |-> FALSE, page |-> page]
        ELSE [ok |-> TRUE,
              page |-> [live |-> [page.live EXCEPT ![s + 1] = TRUE],
                        data |-> [page.data EXCEPT
                                     ![s + 1] = serialize(d, @, t).data]]]

\* ok is FALSE (the page untouched) when the slot is out of range or dead
HeapPage_deleteTuple(page, s) ==
    IF s >= HeapPage_end(page) THEN [ok |-> FALSE, page |-> page]
    ELSE IF ~page.live[s + 1] THEN [ok |-> FALSE, page |-> page]
    ELSE [ok |-> TRUE,
          page |-> [page EXCEPT !.live = [@ EXCEPT ![s + 1] = FALSE]]]

HeapPage_getTuple(page, d, s) ==
    IF s >= HeapPage_end(page) THEN [ok |-> FALSE, tuple |-> <<>>]
    ELSE IF ~page.live[s + 1] THEN [ok |-> FALSE, tuple |-> <<>>]
    ELSE [ok |-> TRUE, tuple |-> deserialize(d, page.data[s + 1])]

(***************************************************************************)
(* HeapFile.  Every operation yields the outcome (status), the store after *)
(* it, the value returned and the store calls it made, in order.           *)
(***************************************************************************)
Iterator(p, s) == [page |-> p, slot |-> s]

Rd(i) == <<"readPage", i>>
Wr(i) == <<"writePage", i>>

\* the first page >= p with a dead slot, or the page count
RECURSIVE FirstPageWithRoom(_, _)
FirstPageWithRoom(ps, p) ==
    IF p >= getNumPages(ps) THEN getNumPages(ps)
    ELSE IF FirstDeadFrom(readPage(ps, p), 0) # HeapPage_end(readPage(ps, p))
    THEN p
    ELSE FirstPageWithRoom(ps, p + 1)

\* faulty variant: first fit, every page is searched for a free slot
InsertIntoLastOrAppend_FirstFit(ps, d, t) ==
    LET n == getNumPages(ps)
        p == FirstPageWithRoom(ps, 0)
    IN  IF p < n
        THEN [status |-> "ok",
              pages |-> writePage(ps, HeapPage_insertTuple(readPage(ps, p),
                                                           d, t).page, p),
              calls |-> [k \in 1..(p + 1) |-> Rd(k - 1)] \o <<Wr(p)>>]
        ELSE [status |-> "ok",
              pages |-> writePage(ps, HeapPage_insertTuple(EmptyPage(d),
                                                           d, t).page, n),
              calls |-> [k \in 1..n |-> Rd(k - 1)] \o <<Wr(n)>>]

\* faulty variant: a new page is appended whatever room the last page has
InsertIntoLastOrAppend_AlwaysAppend(ps, d, t) ==
    LET n == getNumPages(ps)
    IN  [status |-> "ok",
         pages |-> writePage(ps, HeapPage_insertTuple(EmptyPage(d), d, t).page,
                             n),
         calls |-> (IF n > 0 THEN <<Rd(n - 1)>> ELSE <<>>) \o <<Wr(n)>>]

\* faulty variant: a full last page is written back before the new page
InsertIntoLastOrAppend_WritesBoth(ps, d, t) ==
    LET n == getNumPages(ps)
        hp == IF n > 0 THEN HeapPage_insertTuple(readPage(ps, n - 1), d, t)
              ELSE [ok |-> FALSE]
        hp_new == HeapPage_insertTuple(EmptyPage(d), d, t)
    IN  IF n > 0 /\ hp.ok
        THEN [status |-> "ok",
              pages |-> writePage(ps, hp.page, n - 1),
              calls |-> <<Rd(n - 1), Wr(n - 1)>>]
        ELSE [status |-> "ok",
              pages |-> writePage(ps, hp_new.page, n),
              calls |-> (IF n > 0 THEN <<Rd(n - 1), Wr(n - 1)>> ELSE <<>>)
                           \o <<Wr(n)>>]

\* insertTuple after its compatibility check: the last page first, else a
\* new page appended at index n
InsertIntoLastOrAppend(ps, d, t) ==
    LET n == getNumPages(ps)
        hp == IF n > 0 THEN HeapPage_insertTuple(readPage(ps, n - 1), d, t)
              ELSE [ok |-> FALSE]
        hp_new == HeapPage_insertTuple(EmptyPage(d), d, t)
    IN  IF n > 0 /\ hp.ok
        THEN [status |-> "ok",
              pages |-> writePage(ps, hp.page, n - 1),
              calls |-> <<Rd(n - 1), Wr(n - 1)>>]
        ELSE [status |-> "ok",
              pages |-> writePage(ps, hp_new.page, n),
              calls |-> (IF n > 0 THEN <<Rd(n - 1)>> ELSE <<>>) \o <<Wr(n)>>]

\* faulty variant: the tuple is rejected only after the last page has been read
HeapFile_insertTuple_LateCheck(ps, d, t) ==
    IF ~compatible(d, t)
    THEN [status |-> "logic_error", pages |-> ps,
          calls |-> IF getNumPages(ps) > 0 THEN <<Rd(getNumPages(ps) - 1)>>
                    ELSE <<>>]
    ELSE InsertIntoLastOrAppend(ps, d, t)

HeapFile_insertTuple(ps, d, t) ==
    IF ~compatible(d, t)
    THEN [status |-> "logic_error", pages |-> ps, calls |-> <<>>]
    ELSE InsertIntoLastOrAppend(ps, d, t)

\* faulty variant: the page is written back at the last index, not at it.page
HeapFile_deleteTuple_WrongPage(ps, d, i) ==
    LET n == getNumPages(ps)
    IN  IF i.page >= n
        THEN [status |-> "out_of_range", pages |-> ps, calls |-> <<>>]
        ELSE LET hp == HeapPage_deleteTuple(readPage(ps, i.page), i.slot)
             IN  IF ~hp.ok
                 THEN [status |-> "slot_error", pages |-> ps,
                       calls |-> <<Rd(i.page)>>]
                 ELSE [status |-> "ok",
                       pages |-> writePage(ps, hp.page, n - 1),
                       calls |-> <<Rd(i.page), Wr(n - 1)>>]

\* faulty variant: no page-range check, the store's readPage is what fails
HeapFile_deleteTuple_NoRangeCheck(ps, d, i) ==
    LET n == getNumPages(ps)
    IN  IF i.page >= n
        THEN [status |-> "out_of_range", pages |-> ps,
              calls |-> <<Rd(i.page)>>]
        ELSE LET hp == HeapPage_deleteTuple(readPage(ps, i.page), i.slot)
             IN  IF ~hp.ok
                 THEN [status |-> "slot_error", pages |-> ps,
                       calls |-> <<Rd(i.page)>>]
                 ELSE [status |-> "ok",
                       pages |-> writePage(ps, hp.page, i.page),
                       calls |-> <<Rd(i.page), Wr(i.page)>>]

\* faulty variant: the page is written back even when the page refused the delete
HeapFile_deleteTuple_AlwaysWrites(ps, d, i) ==
    LET n == getNumPages(ps)
    IN  IF i.page >= n
        THEN [status |-> "out_of_range", pages |-> ps, calls |-> <<>>]
        ELSE LET hp == HeapPage_deleteTuple(readPage(ps, i.page), i.slot)
             IN  [status |-> IF hp.ok THEN "ok" ELSE "slot_error",
                  pages |-> writePage(ps, hp.page, i.page),
                  calls |-> <<Rd(i.page), Wr(i.page)>>]

\* faulty variant: a last page left without a live slot is dropped from the file
HeapFile_deleteTuple_DropsEmptyPage(ps, d, i) ==
    LET n == getNumPages(ps)
    IN  IF i.page >= n
        THEN [status |-> "out_of_range", pages |-> ps, calls |-> <<>>]
        ELSE LET hp == HeapPage_deleteTuple(readPage(ps, i.page), i.slot)
             IN  IF ~hp.ok
                 THEN [status |-> "slot_error", pages |-> ps,
                       calls |-> <<Rd(i.page)>>]
                 ELSE [status |-> "ok",
                       pages |-> IF i.page = n - 1
                                    /\ HeapPage_begin(hp.page)
                                          = HeapPage_end(hp.page)
                                 THEN SubSeq(ps, 1, n - 1)
                                 ELSE writePage(ps, hp.page, i.page),
                       calls |-> <<Rd(i.page), Wr(i.page)>>]

HeapFile_deleteTuple(ps, d, i) ==
    LET n == getNumPages(ps)
    IN  IF i.page >= n
        THEN [status |-> "out_of_range", pages |-> ps, calls |-> <<>>]
        ELSE LET hp == HeapPage_deleteTuple(readPage(ps, i.page), i.slot)
             IN  IF ~hp.ok
                 THEN [status |-> "slot_error", pages |-> ps,
                       calls |-> <<Rd(i.page)>>]
                 ELSE [status |-> "ok",
                       pages |-> writePage(ps, hp.page, i.page),
                       calls |-> <<Rd(i.page), Wr(i.page)>>]

HeapFile_getTuple(ps, d, i) ==
    LET n == getNumPages(ps)
    IN  IF i.page >= n
        THEN [status |-> "out_of_range", tuple |-> <<>>, calls |-> <<>>]
        ELSE LET hp == HeapPage_getTuple(readPage(ps, i.page), d, i.slot)
             IN  [status |-> IF hp.ok THEN "ok" ELSE "slot_error",
                  tuple |-> hp.tuple, calls |-> <<Rd(i.page)>>]

\* the loop "for (p = from; p < n; ++p)" of next and begin: the first page
\* >= p with a live slot, with the reads made on the way
RECURSIVE FirstNonEmptyFrom(_, _, _)
FirstNonEmptyFrom(ps, p, calls) ==
    IF p >= getNumPages(ps)
    THEN [it |-> Iterator(getNumPages(ps), 0), calls |-> calls]
    ELSE LET hpg == readPage(ps, p)
             b == HeapPage_begin(hpg)
         IN  IF b # HeapPage_end(hpg)
             THEN [it |-> Iterator(p, b), calls |-> Append(calls, Rd(p))]
             ELSE FirstNonEmptyFrom(ps, p + 1, Append(calls, Rd(p)))

\* faulty variant: the search for the next non-empty page starts one page too far
HeapFile_next_SkipsPage(ps, i) ==
    LET n == getNumPages(ps)
    IN  IF i.page >= n THEN [it |-> Iterator(n, 0), calls |-> <<>>]
        ELSE LET hp == readPage(ps, i.page)
                 s == HeapPage_next(hp, i.slot)
             IN  IF s # HeapPage_end(hp)
                 THEN [it |-> Iterator(i.page, s), calls |-> <<Rd(i.page)>>]
                 ELSE FirstNonEmptyFrom(ps, i.page + 2, <<Rd(i.page)>>)

\* faulty variant: a locator at or past the end is left as it is
HeapFile_next_NoNormalize(ps, i) ==
    LET n == getNumPages(ps)
    IN  IF i.page >= n THEN [it |-> i, calls |-> <<>>]
        ELSE LET hp == readPage(ps, i.page)
                 s == HeapPage_next(hp, i.slot)
             IN  IF s # HeapPage_end(hp)
                 THEN [it |-> Iterator(i.page, s), calls |-> <<Rd(i.page)>>]
                 ELSE FirstNonEmptyFrom(ps, i.page + 1, <<Rd(i.page)>>)

\* faulty variant: the slot is not advanced before the page is searched
HeapFile_next_NoAdvance(ps, i) ==
    LET n == getNumPages(ps)
    IN  IF i.page >= n THEN [it |-> Iterator(n, 0), calls |-> <<>>]
        ELSE LET hp == readPage(ps, i.page)
                 s == FirstLiveFrom(hp, i.slot)
             IN  IF s # HeapPage_end(hp)
                 THEN [it |-> Iterator(i.page, s), calls |-> <<Rd(i.page)>>]
                 ELSE FirstNonEmptyFrom(ps, i.page + 1, <<Rd(i.page)>>)

\* faulty variant: from a slot that is not live the page is searched from
\* its first slot
HeapFile_next_RestartsOnDeadSlot(ps, i) ==
    LET n == getNumPages(ps)
    IN  IF i.page >= n THEN [it |-> Iterator(n, 0), calls |-> <<>>]
        ELSE LET hp == readPage(ps, i.page)
                 s == IF i.slot < HeapPage_end(hp) /\ ~hp.live[i.slot + 1]
                      THEN HeapPage_begin(hp)
                      ELSE HeapPage_next(hp, i.slot)
             IN  IF s # HeapPage_end(hp)
                 THEN [it |-> Iterator(i.page, s), calls |-> <<Rd(i.page)>>]
                 ELSE FirstNonEmptyFrom(ps, i.page + 1, <<Rd(i.page)>>)

HeapFile_next(ps, i) ==
    LET n == getNumPages(ps)
    IN  IF i.page >= n THEN [it |-> Iterator(n, 0), calls |-> <<>>]
        ELSE LET hp == readPage(ps, i.page)
                 s == HeapPage_next(hp, i.slot)
             IN  IF s # HeapPage_end(hp)
                 THEN [it |-> Iterator(i.page, s), calls |-> <<Rd(i.page)>>]
                 ELSE FirstNonEmptyFrom(ps, i.page + 1, <<Rd(i.page)>>)

\* faulty variant: only page 0 is looked at
HeapFile_begin_FirstPageOnly(ps) ==
    IF getNumPages(ps) > 0
       /\ HeapPage_begin(readPage(ps, 0)) # HeapPage_end(readPage(ps, 0))
    THEN [it |-> Iterator(0, HeapPage_begin(readPage(ps, 0))),
          calls |-> <<Rd(0)>>]
    ELSE [it |-> Iterator(getNumPages(ps), 0),
          calls |-> IF getNumPages(ps) > 0 THEN <<Rd(0)>> ELSE <<>>]

HeapFile_begin(ps) == FirstNonEmptyFrom(ps, 0, <<>>)

HeapFile_end(ps) == [it |-> Iterator(getNumPages(ps), 0), calls |-> <<>>]

(***************************************************************************)
(* Inputs: the schemas a file is opened with and the tuples offered to it. *)
(***************************************************************************)
Str(n, c) == [k \in 1..n |-> c]

\* {INT id, CHAR name}: 68 bytes
TD1 == [types |-> <<"INT", "CHAR">>, names |-> <<"id", "name">>]
\* 136 bytes
TD2 == [types |-> <<"DOUBLE", "CHAR", "CHAR">>, names |-> <<"x", "a", "b">>]
\* 192 bytes: wider than a page
TD3 == [types |-> <<"CHAR", "CHAR", "CHAR">>, names |-> <<"a", "b", "c">>]

Schemas == {TD1, TD2, TD3}

\* (1, "a")
T1a == <<IntField(1), CharField(<<97>>)>>
\* (-2, "bbb...b"), 65 bytes of text
T1b == <<IntField(-2), CharField(Str(CHAR_SIZE + 1, 98))>>
\* (1.5, "x\0y", "")
T2a == <<DoubleField(<<0, 0, 0, 0, 0, 0, 248, 63>>), CharField(<<120, 0, 121>>),
         CharField(<<>>)>>
T3a == <<CharField(<<97>>), CharField(<<98>>), CharField(<<99>>)>>
\* ("a", 1): the types of TD1 swapped
T1x == <<CharField(<<97>>), IntField(1)>>
\* (7): one field
TShort == <<IntField(7)>>

Tuples == {T1a, T1b, T2a, T3a, T1x, TShort}

\* the locators a caller may build
Locators == {Iterator(p, s) : p \in 0..MaxPages, s \in 0..MaxSlot}

NoTuple == <<>>

\* the pages a file of schema d is explored up to
PageLimit(d) ==
    MaxRecords \div (IF HeapPage_capacity(d) > 1 THEN HeapPage_capacity(d)
                     ELSE 1)

\* the record as the codec keeps it: text cut at CHAR_SIZE bytes and at its
\* first zero byte (serialize, then deserialize)
Stored(d, t) == deserialize(d, serialize(d, Zeros(length(d)), t).data)

(***************************************************************************)
(* State: td is the file's schema and pages the page store.  last records  *)
(* the call that has just returned: its name, its tuple argument t, its    *)
(* iterator argument it, the store before it, its outcome, the tuple it    *)
(* returned, the iterator it returned (for next: the argument after the    *)
(* call) and its store calls.  Calls are synchronous and one at a time:    *)
(* the caller drops the record of a call (Discard) before it makes the     *)
(* next one.  prior is the call before last, kept when it was a successful *)
(* deleteTuple.  log is the history of the file while no record has been   *)
(* deleted: the tuples of the successful insertTuple calls, in order.  bag *)
(* is the multiset of the records put in by successful insertTuple calls   *)
(* (as the codec keeps them) less those that were at the locators of       *)
(* successful deleteTuple calls.                                           *)
(***************************************************************************)
NoIt == Iterator(0, 0)

Call(op, t, i, status, tuple, ret, calls) ==
    [op |-> op, t |-> t, it |-> i, pages |-> pages, status |-> status,
     tuple |-> tuple, ret |-> ret, calls |-> calls]

NoCall ==
    [op |-> "none", t |-> NoTuple, it |-> NoIt, pages |-> <<>>,
     status |-> "ok", tuple |-> NoTuple, ret |-> NoIt, calls |-> <<>>]

Idle == last.op = "none"

NoTupleDesc == [op |-> "none"]

Init ==
    /\ td \in Schemas
    /\ pages = <<>>
    /\ last = NoCall
    /\ prior = NoCall
    /\ log = [appendOnly |-> TRUE, inserts |-> <<>>]
    /\ bag = EmptyBag
    /\ tc = NoTupleDesc

InsertTuple ==
    \E t \in Tuples :
        LET r == HeapFile_insertTuple(pages, td, t)
        IN  /\ Idle
            /\ Len(r.pages) <= PageLimit(td)
            /\ pages' = r.pages
            /\ last' = Call("insertTuple", t, NoIt, r.status, NoTuple, NoIt,
                            r.calls)
            /\ log' = IF r.status = "ok" /\ log.appendOnly
                      THEN [log EXCEPT !.inserts = Append(@, t)]
                      ELSE log
            /\ bag' = IF r.status = "ok"
                      THEN bag (+) SetToBag({Stored(td, t)})
                      ELSE bag
            /\ UNCHANGED <<td, prior, tc>>

DeleteTuple ==
    \E i \in Locators :
        LET r == HeapFile_deleteTuple(pages, td, i)
        IN  /\ Idle
            /\ pages' = r.pages
            /\ last' = Call("deleteTuple", NoTuple, i, r.status, NoTuple, NoIt,
                            r.calls)
            /\ log' = IF r.status = "ok"
                      THEN [appendOnly |-> FALSE, inserts |-> <<>>]
                      ELSE log
            /\ bag' = IF r.status = "ok"
                      THEN bag (-) SetToBag({HeapFile_getTuple(pages, td, i).tuple})
                      ELSE bag
            /\ UNCHANGED <<td, prior, tc>>

GetTuple ==
    \E i \in Locators :
        LET r == HeapFile_getTuple(pages, td, i)
        IN  /\ Idle
            /\ last' = Call("getTuple", NoTuple, i, r.status, r.tuple, NoIt,
                            r.calls)
            /\ UNCHANGED <<td, pages, prior, log, bag, tc>>

NextIt ==
    \E i \in Locators :
        LET r == HeapFile_next(pages, i)
        IN  /\ Idle
            /\ last' = Call("next", NoTuple, i, "ok", NoTuple, r.it, r.calls)
            /\ UNCHANGED <<td, pages, prior, log, bag, tc>>

Begin ==
    LET r == HeapFile_begin(pages)
    IN  /\ Idle
        /\ last' = Call("begin", NoTuple, NoIt, "ok", NoTuple, r.it, r.calls)
        /\ UNCHANGED <<td, pages, prior, log, bag, tc>>

End ==
    LET r == HeapFile_end(pages)
    IN  /\ Idle
        /\ last' = Call("end", NoTuple, NoIt, "ok", NoTuple, r.it, r.calls)
        /\ UNCHANGED <<td, pages, prior, log, bag, tc>>

\* the caller is done with the outcome of the call
Discard ==
    /\ ~Idle
    /\ last' = NoCall
    /\ prior' = IF last.op = "deleteTuple" /\ last.status = "ok" THEN last
                ELSE NoCall
    /\ UNCHANGED <<td, pages, log, bag, tc>>

Next ==
    \/ InsertTuple
    \/ DeleteTuple
    \/ GetTuple
    \/ NextIt
    \/ Begin
    \/ End
    \/ Discard

Spec == Init /\ [][Next]_vars


(***************************************************************************)
(* TupleDesc on its own: tc holds the arguments of one call of the         *)
(* constructor, of merge or of serialize, and then the call's outcome;     *)
(* deserialize reads back what serialize wrote.                            *)
(***************************************************************************)
\* the longest type and name lists tried
MaxFields == 2

Types == {"INT", "DOUBLE", "CHAR"}
Names == {"a", "b"}

SeqsUpTo(S, n) == UNION {[1..k -> S] : k \in 0..n}

TypeLists == SeqsUpTo(Types, MaxFields)
NameLists == SeqsUpTo(Names, MaxFields)

\* the schemas the constructor accepts
ValidDescs ==
    {TupleDesc_new(ty, na).desc :
        <<ty, na>> \in {x \in TypeLists \X NameLists :
                          TupleDesc_new(x[1], x[2]).ok}}

\* one schema per type list, for the codec
DefaultNames == <<"a", "b", "c">>
CodecDescs ==
    {[types |-> ty, names |-> SubSeq(DefaultNames, 1, Len(ty))] :
        ty \in TypeLists}

FieldValues ==
    {IntField(0), IntField(0 - 1), IntField(2147483647),
     IntField(0 - 2147483647 - 1),
     DoubleField(<<0, 0, 0, 0, 0, 0, 248, 63>>),
     DoubleField(Zeros(DOUBLE_SIZE)),
     CharField(<<>>), CharField(<<97>>), CharField(<<120, 0, 121>>),
     CharField(Str(CHAR_SIZE, 99)), CharField(Str(CHAR_SIZE + 1, 98))}

CodecTuples == SeqsUpTo(FieldValues, MaxFields)

\* a destination buffer of n bytes that are not zero
Dirty(n) == [k \in 1..n |-> 170]

TupleDescInputs ==
    {[op |-> "args", of |-> "TupleDesc", types |-> ty, names |-> na] :
        ty \in TypeLists, na \in NameLists}
    \cup {[op |-> "args", of |-> "merge", td1 |-> a, td2 |-> b] :
             a \in ValidDescs, b \in ValidDescs}
    \cup {[op |-> "args", of |-> "serialize", d |-> d, t |-> t,
           data |-> Dirty(length(d))] :
             d \in CodecDescs, t \in CodecTuples}

InitTupleDesc ==
    /\ td = TD1
    /\ pages = <<>>
    /\ last = NoCall
    /\ prior = NoCall
    /\ log = [appendOnly |-> TRUE, inserts |-> <<>>]
    /\ bag = EmptyBag
    /\ tc \in TupleDescInputs

Construct ==
    /\ tc.op = "args" /\ tc.of = "TupleDesc"
    /\ tc' = [op |-> "TupleDesc", types |-> tc.types, names |-> tc.names,
              r |-> TupleDesc_new(tc.types, tc.names)]
    /\ UNCHANGED <<td, pages, last, prior, log, bag>>

Merge ==
    /\ tc.op = "args" /\ tc.of = "merge"
    /\ tc' = [op |-> "merge", td1 |-> tc.td1, td2 |-> tc.td2,
              r |-> merge(tc.td1, tc.td2)]
    /\ UNCHANGED <<td, pages, last, prior, log, bag>>

Serialize ==
    /\ tc.op = "args" /\ tc.of = "serialize"
    /\ tc' = [op |-> "serialize", d |-> tc.d, t |-> tc.t, data |-> tc.data,
              r |-> serialize(tc.d, tc.data, tc.t)]
    /\ UNCHANGED <<td, pages, last, prior, log, bag>>

Deserialize ==
    /\ tc.op = "serialize" /\ tc.r.ok
    /\ tc' = [op |-> "deserialize", d |-> tc.d, t |-> tc.t,
              data |-> tc.r.data, out |-> deserialize(tc.d, tc.r.data)]
    /\ UNCHANGED <<td, pages, last, prior, log, bag>>

NextTupleDesc ==
    \/ Construct
    \/ Merge
    \/ Serialize
    \/ Deserialize

SpecTupleDesc == InitTupleDesc /\ [][NextTupleDesc]_vars

(***************************************************************************)
(* Vocabulary of the properties.                                           *)
(***************************************************************************)
Sentinel(ps) == Iterator(Len(ps), 0)

\* slot s of page p holds a live record
IsLive(ps, p, s) ==
    /\ p < Len(ps)
    /\ s < Len(ps[p + 1].live)
    /\ ps[p + 1].live[s + 1]

SlotsOf(ps, p) == 0..(Len(ps[p + 1].live) - 1)

LiveLocs(ps) ==
    {i \in [page : 0..(Len(ps) - 1), slot : 0..MaxSlot] :
        IsLive(ps, i.page, i.slot)}

LexLess(a, b) == a.page < b.page \/ (a.page = b.page /\ a.slot < b.slot)

\* the live locators in increasing (page, slot) order, read off the
\* liveness bits
RECURSIVE SortedFrom(_, _, _)
SortedFrom(ps, p, s) ==
    IF p >= Len(ps) THEN <<>>
    ELSE IF s >= Len(ps[p + 1].live) THEN SortedFrom(ps, p + 1, 0)
    ELSE (IF ps[p + 1].live[s + 1] THEN <<Iterator(p, s)>> ELSE <<>>)
            \o SortedFrom(ps, p, s + 1)

SortedLive(ps) == SortedFrom(ps, 0, 0)

Range(q) == {q[k] : k \in 1..Len(q)}

\* an upper bound on the locators of a file, for cutting off a scan
ScanFuel(ps) == Len(ps) * (MaxSlot + 1) + 2

StillScanning == Iterator(0 - 1, 0)

\* the locators a caller visits: from i, next until the locator is end();
\* a scan that overruns its fuel ends in the mark StillScanning
RECURSIVE ScanFrom(_, _, _)
ScanFrom(ps, i, fuel) ==
    IF i = HeapFile_end(ps).it THEN <<>>
    ELSE IF fuel = 0 THEN <<StillScanning>>
    ELSE <<i>> \o ScanFrom(ps, HeapFile_next(ps, i).it, fuel - 1)

FullScan(ps) == ScanFrom(ps, HeapFile_begin(ps).it, ScanFuel(ps))

HasDeadSlot(page) == \E s \in 1..Len(page.live) : ~page.live[s]

Inserted == last.op = "insertTuple" /\ last.status = "ok"

Deleted == last.op = "deleteTuple" /\ last.status = "ok"

(***************************************************************************)
(* C1  insertTuple keeps the page count when the last page has a dead      *)
(* slot; on an empty file or a full last page it adds exactly one page and *)
(* getTuple at (previous page count, s) returns the inserted record for    *)
(* some slot s.                                                            *)
(***************************************************************************)
\* "returns the inserted record" is read with the codec's conversion of text
\* granted, which the claim as worded implies
C1_InsertPlacement ==
    Inserted =>
        LET n == Len(last.pages)
        IN  IF n > 0 /\ HasDeadSlot(last.pages[n])
            THEN Len(pages) = n
            ELSE /\ Len(pages) = n + 1
                 /\ \E s \in 0..MaxSlot :
                        LET g == HeapFile_getTuple(pages, td, Iterator(n, s))
                        IN  g.status = "ok" /\ g.tuple = Stored(td, last.t)

(***************************************************************************)
(* C2  With no mutation during the scan, begin() and next until end()      *)
(* visit every live (page, slot) exactly once in strictly increasing       *)
(* order, and next from the last live locator yields (pageCount, 0).       *)
(***************************************************************************)
C2_ScanCompleteOrdered ==
    /\ last.op = "begin" =>
           /\ ScanFrom(pages, last.ret, ScanFuel(pages)) = SortedLive(pages)
           /\ \A k \in 1..(Len(SortedLive(pages)) - 1) :
                  LexLess(SortedLive(pages)[k], SortedLive(pages)[k + 1])
           /\ Range(SortedLive(pages)) = LiveLocs(pages)
    /\ (last.op = "next" /\ SortedLive(pages) # <<>>
          /\ last.it = SortedLive(pages)[Len(SortedLive(pages))]) =>
           last.ret = Sentinel(pages)

\* next has stepped from the last live locator of a two-page file whose
\* first page has a dead slot below a live one
C2_Witness ==
    /\ last.op = "next"
    /\ Len(pages) = 2
    /\ ~IsLive(pages, 0, 0) /\ IsLive(pages, 0, 1) /\ IsLive(pages, 1, 0)
    /\ last.it = Iterator(1, 0)
    /\ last.ret = Iterator(2, 0)
    /\ Len(FullScan(pages)) = 2

(***************************************************************************)
(* C3  After a successful deleteTuple at live locator L a full scan visits *)
(* exactly the previously live locators except L, getTuple at every other  *)
(* previously live locator returns the same record as before, and the page *)
(* count is unchanged.                                                     *)
(***************************************************************************)
C3_DeleteFrame ==
    Deleted =>
        /\ last.it \in LiveLocs(last.pages)
        /\ Len(pages) = Len(last.pages)
        /\ Range(FullScan(pages)) = LiveLocs(last.pages) \ {last.it}
        /\ Len(FullScan(pages)) = Cardinality(LiveLocs(last.pages)) - 1
        /\ \A l \in LiveLocs(last.pages) \ {last.it} :
               /\ HeapFile_getTuple(pages, td, l).status = "ok"
               /\ HeapFile_getTuple(pages, td, l).tuple
                     = HeapFile_getTuple(last.pages, td, l).tuple

\* a delete in the first page of a file with three other live records
C3_Witness ==
    /\ Deleted
    /\ last.it = Iterator(0, 0)
    /\ Len(pages) = 2
    /\ Cardinality(LiveLocs(pages)) = 3
    /\ HeapFile_getTuple(pages, td, Iterator(0, 1)).tuple
          # HeapFile_getTuple(pages, td, Iterator(1, 0)).tuple

(***************************************************************************)
(* C4  insertTuple of a record that is not compatible with the schema      *)
(* fails before any page read or write: page count and page contents are   *)
(* the same before and after.                                              *)
(***************************************************************************)
C4_IncompatibleInsertNoOp ==
    (last.op = "insertTuple" /\ ~compatible(td, last.t)) =>
        /\ last.status = "logic_error"
        /\ last.calls = <<>>
        /\ pages = last.pages

\* a tuple with the right field count and a wrong type, refused by a file
\* that has a page with a free slot
C4_Witness ==
    /\ last.op = "insertTuple"
    /\ ~compatible(td, last.t)
    /\ Len(last.t) = Len(td.types)
    /\ last.status = "logic_error"
    /\ Len(pages) >= 1
    /\ HasDeadSlot(pages[Len(pages)])

(***************************************************************************)
(* C5  deleteTuple and getTuple with a locator whose page index is >= the  *)
(* page count fail with an out-of-range error, reading and writing no      *)
(* page, and leave page count and pages unchanged.                         *)
(***************************************************************************)
C5_PageOutOfRange ==
    (last.op \in {"deleteTuple", "getTuple"}
       /\ last.it.page >= Len(last.pages)) =>
        /\ last.status = "out_of_range"
        /\ last.calls = <<>>
        /\ pages = last.pages

\* deleteTuple at end() of a file that has a live record
C5_Witness ==
    /\ last.op = "deleteTuple"
    /\ last.it = Sentinel(last.pages)
    /\ Len(pages) >= 1
    /\ LiveLocs(pages) # {}
    /\ last.status = "out_of_range"


(***************************************************************************)
(* C6  deleteTuple at a locator whose page is in range but whose slot is   *)
(* dead (never inserted, or already deleted) or beyond the page capacity   *)
(* fails, performs no page write and leaves every page unmodified.         *)
(***************************************************************************)
NoWrite(calls) == \A k \in 1..Len(calls) : calls[k][1] # "writePage"

C6_DeadSlotDeleteNoOp ==
    (last.op = "deleteTuple"
       /\ last.it.page < Len(last.pages)
       /\ ~IsLive(last.pages, last.it.page, last.it.slot)) =>
        /\ last.status = "slot_error"
        /\ NoWrite(last.calls)
        /\ pages = last.pages

\* a second delete of a locator that was inserted and then deleted, in a
\* page that still has a live record
C6_Witness ==
    /\ last.op = "deleteTuple"
    /\ last.status = "slot_error"
    /\ last.it.page < Len(pages)
    /\ last.it.slot < Len(pages[last.it.page + 1].live)
    /\ pages[last.it.page + 1].data[last.it.slot + 1] # Zeros(length(td))
    /\ \E s \in SlotsOf(pages, last.it.page) : IsLive(pages, last.it.page, s)

(***************************************************************************)
(* C7  begin() returns the lexicographically smallest live locator,        *)
(* skipping leading pages without a live slot; when no page has a live     *)
(* slot it returns end() = (pageCount, 0).                                 *)
(***************************************************************************)
IsFirstLive(ps, i) ==
    IF LiveLocs(ps) = {} THEN i = HeapFile_end(ps).it /\ i = Sentinel(ps)
    ELSE /\ i \in LiveLocs(ps)
         /\ \A l \in LiveLocs(ps) : l = i \/ LexLess(i, l)

C7_BeginIsFirstLive ==
    last.op = "begin" => IsFirstLive(pages, last.ret)

\* begin() has skipped a first page whose records were all deleted
C7_Witness ==
    /\ last.op = "begin"
    /\ Len(pages) = 2
    /\ \A s \in SlotsOf(pages, 0) : ~IsLive(pages, 0, s)
    /\ last.ret.page = 1
    /\ IsLive(pages, 1, last.ret.slot)

(***************************************************************************)
(* C8  next applied to a locator whose page index is >= the page count,    *)
(* whatever its slot, sets it to (pageCount, 0) without reading a page;    *)
(* next applied to end() again and again leaves it equal to end().         *)
(***************************************************************************)
C8_NextPastEnd ==
    (last.op = "next" /\ last.it.page >= Len(pages)) =>
        /\ last.ret = Sentinel(pages)
        /\ last.calls = <<>>
        /\ HeapFile_end(pages).it = Sentinel(pages)
        /\ HeapFile_next(pages, last.ret).it = HeapFile_end(pages).it

\* next on a locator past end() with a slot other than 0
C8_Witness ==
    /\ last.op = "next"
    /\ Len(pages) >= 1
    /\ last.it.page > Len(pages)
    /\ last.it.slot > 0
    /\ last.ret = Sentinel(pages)

(***************************************************************************)
(* C9  With no mutation in between, from any locator with page index <     *)
(* pageCount each next yields a strictly greater locator, and repeated     *)
(* next reaches the sentinel (pageCount, 0) after finitely many calls.     *)
(***************************************************************************)
\* the number of next calls from i until the locator is the sentinel, or
\* fuel + 1 when fuel calls do not reach it
RECURSIVE CallsToEnd(_, _, _)
CallsToEnd(ps, i, fuel) ==
    IF i = Sentinel(ps) THEN 0
    ELSE IF fuel = 0 THEN 1
    ELSE 1 + CallsToEnd(ps, HeapFile_next(ps, i).it, fuel - 1)

C9_NextTerminates ==
    (last.op = "next" /\ last.it.page < Len(pages)) =>
        /\ LexLess(last.it, last.ret)
        /\ CallsToEnd(pages, last.it, ScanFuel(pages))
              <= Cardinality(LiveLocs(pages)) + 1

\* next from a dead slot of the first page has moved to the second page,
\* three calls away from the sentinel
C9_Witness ==
    /\ last.op = "next"
    /\ Len(pages) = 2
    /\ last.it.page = 0
    /\ ~IsLive(pages, 0, last.it.slot)
    /\ last.ret.page = 1
    /\ CallsToEnd(pages, Iterator(0, 0), ScanFuel(pages)) = 3

(***************************************************************************)
(* C10  Pages are append-only: the page count never decreases, and         *)
(* deleteTuple, getTuple, begin, end and next never change it, even when a *)
(* delete leaves a page with no live slot.                                 *)
(***************************************************************************)
C10_AppendOnly ==
    /\ ~Idle => Len(pages) >= Len(last.pages)
    /\ last.op \in {"deleteTuple", "getTuple", "begin", "end", "next"} =>
           Len(pages) = Len(last.pages)
    /\ last.op \in {"getTuple", "begin", "end", "next"} => pages = last.pages

\* a delete has emptied the last page of a two-page file
C10_Witness ==
    /\ Deleted
    /\ Len(last.pages) = 2
    /\ last.it.page = 1
    /\ \A s \in SlotsOf(pages, 1) : ~IsLive(pages, 1, s)
    /\ Len(pages) = 2


(***************************************************************************)
(* C11  For a file built by insertTuple calls only, from an empty file, a  *)
(* full scan from begin() to end() yields exactly the inserted records in  *)
(* insertion order, across page boundaries, and begin() is (0, 0).         *)
(***************************************************************************)
\* the records getTuple returns at the locators q, in order
RecordsAt(ps, d, q) ==
    [k \in 1..Len(q) |-> HeapFile_getTuple(ps, d, q[k]).tuple]

\* "the inserted records" are read with the codec's conversion of text
\* granted, which the claim as worded implies
C11_InsertOnlyScan ==
    (log.appendOnly /\ last.op = "begin") =>
        /\ last.ret = Iterator(0, 0)
        /\ RecordsAt(pages, td, ScanFrom(pages, last.ret, ScanFuel(pages)))
              = [k \in 1..Len(log.inserts) |-> Stored(td, log.inserts[k])]

(***************************************************************************)
(* C15  insertTuple on a file with n pages never reads or modifies a page  *)
(* with index < n - 1: every such page is the same before and after, even  *)
(* when it has dead slots and the last page is full (a page is appended).  *)
(***************************************************************************)
C15_InsertTouchesLastPageOnly ==
    last.op = "insertTuple" =>
        LET n == Len(last.pages)
        IN  /\ \A p \in 0..(n - 2) : pages[p + 1] = last.pages[p + 1]
            /\ \A k \in 1..Len(last.calls) : last.calls[k][2] >= n - 1

\* the last of two pages is full, the first has a dead slot, and the insert
\* has appended a third page
C15_Witness ==
    /\ Inserted
    /\ Len(last.pages) = 2
    /\ HasDeadSlot(last.pages[1])
    /\ ~HasDeadSlot(last.pages[2])
    /\ Len(pages) = 3
    /\ IsLive(pages, 2, 0)

(***************************************************************************)
(* C16  Slot reuse: after deleting live locator (n-1, s) in the last page  *)
(* of a file with n pages, if s is then the lowest dead slot of that page, *)
(* the next insertTuple of a compatible record places it at (n-1, s),      *)
(* leaves the page count at n, and getTuple at (n-1, s) returns the new    *)
(* record.                                                                 *)
(***************************************************************************)
\* an insert has followed the delete of (n-1, s), s the lowest dead slot
ReusedSlot ==
    /\ Inserted
    /\ prior.op = "deleteTuple"
    /\ prior.it.page = Len(last.pages) - 1
    /\ prior.it.slot = FirstDeadFrom(last.pages[Len(last.pages)], 0)

\* C16 as worded: getTuple returns the record that was passed to insertTuple
C16_SlotReuseLiteral ==
    ReusedSlot =>
        /\ Len(pages) = Len(last.pages)
        /\ IsLive(pages, prior.it.page, prior.it.slot)
        /\ HeapFile_getTuple(pages, td, prior.it).tuple = last.t

\* C16 amended: the record is placed at (n-1, s), nothing else in the file
\* changes, and getTuple at (n-1, s) returns the new record with every text
\* field cut at 64 bytes and at its first zero byte
C16_SlotReuse ==
    ReusedSlot =>
        /\ Len(pages) = Len(last.pages)
        /\ IsLive(pages, prior.it.page, prior.it.slot)
        /\ HeapFile_getTuple(pages, td, prior.it).status = "ok"
        /\ HeapFile_getTuple(pages, td, prior.it).tuple = Stored(td, last.t)
        /\ \A l \in LiveLocs(last.pages) :
               HeapFile_getTuple(pages, td, l)
                   = HeapFile_getTuple(last.pages, td, l)
        /\ LiveLocs(pages) = LiveLocs(last.pages) \cup {prior.it}

\* slot 1 of a page whose slot 0 is live is reused for a record other than
\* the one deleted from it
C16_Witness ==
    /\ ReusedSlot
    /\ prior.it.slot = 1
    /\ HeapFile_getTuple(pages, td, prior.it).tuple
          # HeapFile_getTuple(prior.pages, td, prior.it).tuple

(***************************************************************************)
(* C17  Every successful insertTuple or deleteTuple issues exactly one     *)
(* writePage call and it is the last store call of the operation; every    *)
(* failing insertTuple or deleteTuple issues no writePage call.            *)
(***************************************************************************)
Writes(calls) == {k \in 1..Len(calls) : calls[k][1] = "writePage"}

C17_OneWriteLast ==
    last.op \in {"insertTuple", "deleteTuple"} =>
        IF last.status = "ok"
        THEN Writes(last.calls) = {Len(last.calls)} /\ last.calls # <<>>
        ELSE Writes(last.calls) = {}

\* an insert that read a full last page and then appended a page
C17_Witness ==
    /\ Inserted
    /\ Len(last.calls) = 2
    /\ last.calls[1] = Rd(Len(last.pages) - 1)
    /\ last.calls[2] = Wr(Len(last.pages))

(***************************************************************************)
(* C18  The heap file refines a bag of records: after any insertTuple and  *)
(* deleteTuple calls on an initially empty file, the multiset of records   *)
(* getTuple returns over a full scan equals the multiset of records passed *)
(* to successful inserts minus the records that were at the locators of    *)
(* successful deletes.                                                     *)
(***************************************************************************)
RECURSIVE BagOfSeq(_)
BagOfSeq(q) ==
    IF q = <<>> THEN EmptyBag
    ELSE BagOfSeq(Tail(q)) (+) SetToBag({Head(q)})

\* the inserted records are counted as the codec keeps them, which the
\* claim as worded implies
C18_RefinesBag ==
    BagOfSeq(RecordsAt(pages, td, FullScan(pages))) = bag

(***************************************************************************)
(* C19  In every state reached from an empty file by insertTuple calls     *)
(* only, every page except the last is full and the last page has at least *)
(* one live slot; so the page count is ceil(inserts / page capacity).      *)
(***************************************************************************)
C19_InsertOnlyPacked ==
    log.appendOnly =>
        LET n == Len(pages)
            cap == HeapPage_capacity(td)
            k == Len(log.inserts)
        IN  /\ \A p \in 0..(n - 2) : ~HasDeadSlot(pages[p + 1])
            /\ n > 0 => \E s \in SlotsOf(pages, n - 1) : IsLive(pages, n - 1, s)
            /\ (n - 1) * cap < k \/ (n = 0 /\ k = 0)
            /\ k <= n * cap

(***************************************************************************)
(* C20  Deleting the record under the cursor does not derail a scan: for a *)
(* live locator L, deleteTuple(L) and then next(L) yields the locator that *)
(* next(L) yields without the delete, and the scan continued to end()      *)
(* visits exactly the remaining live slots once each.                      *)
(***************************************************************************)
\* the locators of q after L
After(L, q) == LET Later(l) == LexLess(L, l) IN SelectSeq(q, Later)

C20_DeleteUnderCursor ==
    (last.op = "next" /\ prior.op = "deleteTuple" /\ last.it = prior.it) =>
        /\ prior.it \in LiveLocs(prior.pages)
        /\ last.ret = HeapFile_next(prior.pages, prior.it).it
        /\ ScanFrom(pages, last.ret, ScanFuel(pages))
              = After(prior.it, SortedLive(pages))

\* the record at (0, 1) was deleted under the cursor, a live slot lies
\* before it, and the scan goes on into the next page
C20_Witness ==
    /\ last.op = "next"
    /\ prior.op = "deleteTuple"
    /\ last.it = prior.it
    /\ prior.it = Iterator(0, 1)
    /\ IsLive(pages, 0, 0)
    /\ last.ret = Iterator(1, 0)
    /\ Len(ScanFrom(pages, last.ret, ScanFuel(pages))) = 2

(***************************************************************************)
(* C12..C14: TupleDesc, checked under SpecTupleDesc.                       *)
(***************************************************************************)
\* the first CHAR_SIZE bytes of a text value
First64(s) == SubSeq(s, 1, Min(Len(s), CHAR_SIZE))

\* s up to, and without, its first zero byte
CutAtZero(s) ==
    LET Z == {k \in 1..Len(s) : s[k] = 0}
    IN  IF Z = {} THEN s
        ELSE SubSeq(s, 1, (CHOOSE k \in Z : \A j \in Z : k <= j) - 1)

RoundTripped == tc.op = "deserialize"

\* C12 as stated: after serialize then deserialize of a compatible record,
\* every int and double field is the record's, and every text field is
\* the first 64 bytes of the record's text value.
C12_RoundTripLiteral ==
    RoundTripped =>
        /\ Len(tc.out) = Len(tc.t)
        /\ \A i \in 1..Len(tc.t) :
               IF tc.d.types[i] = "CHAR"
               THEN tc.out[i] = CharField(First64(tc.t[i].val))
               ELSE tc.out[i] = tc.t[i]

\* C12, amended: every int and double field is the record's, and every
\* text field is the first 64 bytes of the record's text value, cut at the
\* first zero byte among them when there is one.
C12_RoundTrip ==
    RoundTripped =>
        /\ Len(tc.out) = Len(tc.t)
        /\ \A i \in 1..Len(tc.t) :
               IF tc.d.types[i] = "CHAR"
               THEN tc.out[i] = CharField(CutAtZero(First64(tc.t[i].val)))
               ELSE tc.out[i] = tc.t[i]

\* a negative int and a text longer than the field went through
C12_Witness ==
    /\ RoundTripped
    /\ \E i \in 1..Len(tc.t) :
           tc.d.types[i] = "INT" /\ tc.t[i].val < 0 /\ tc.out[i] = tc.t[i]
    /\ \E i \in 1..Len(tc.t) :
           /\ tc.d.types[i] = "CHAR"
           /\ Len(tc.t[i].val) > CHAR_SIZE
           /\ Len(tc.out[i].val) = CHAR_SIZE

\* same field count and, at every position, the schema's type
Matches(d, t) ==
    /\ Len(t) = Len(d.types)
    /\ \A i \in 1..Len(t) : t[i].type = d.types[i]

\* C13: serialize succeeds exactly when the record has the schema's field
\* count and the schema's type at every position, which is what compatible
\* answers; when it fails the destination buffer is byte for byte what it
\* was before the call.
C13_SerializeIffCompatible ==
    tc.op = "serialize" =>
        /\ tc.r.ok <=> Matches(tc.d, tc.t)
        /\ compatible(tc.d, tc.t) <=> Matches(tc.d, tc.t)
        /\ ~tc.r.ok => tc.r.data = tc.data

\* a record whose first field fits and whose second does not was rejected
C13_Witness ==
    /\ tc.op = "serialize"
    /\ ~tc.r.ok
    /\ Len(tc.t) = 2 /\ Len(tc.d.types) = 2
    /\ tc.t[1].type = tc.d.types[1]
    /\ tc.t[2].type # tc.d.types[2]

\* C14: the constructor fails when the two lists differ in length or a
\* name repeats; merge fails when the schemas share a name, and otherwise
\* gives the fields of the first followed by those of the second, with
\* the field counts and the lengths added.
C14_ConstructAndMerge ==
    /\ tc.op = "TupleDesc" =>
           ((Len(tc.types) # Len(tc.names)
              \/ Cardinality(Range(tc.names)) # Len(tc.names)) => ~tc.r.ok)
    /\ tc.op = "merge" =>
           IF Range(tc.td1.names) \cap Range(tc.td2.names) # {}
           THEN ~tc.r.ok
           ELSE /\ tc.r.ok
                /\ Len(tc.r.desc.types) =
                      Len(tc.td1.types) + Len(tc.td2.types)
                /\ tc.r.desc.types = tc.td1.types \o tc.td2.types
                /\ tc.r.desc.names = tc.td1.names \o tc.td2.names
                /\ length(tc.r.desc) = length(tc.td1) + length(tc.td2)
                /\ \A i \in 1..Len(tc.td2.types) :
                       offset_of(tc.r.desc, Len(tc.td1.types) + i) =
                           length(tc.td1) + offset_of(tc.td2, i)

\* two schemas of one field each and different names were merged
C14_Witness ==
    /\ tc.op = "merge"
    /\ tc.r.ok
    /\ Len(tc.td1.types) = 1 /\ Len(tc.td2.types) = 1

====
